---------------------------- MODULE Spec2Model ----------------------------
(***************************************************************************)
(* A model of the MZGF codec of mzgzip (src/src/MZGFile.cpp, MZGFile.h).   *)
(*                                                                         *)
(* The compressed file is a sequence of bytes (0..255).  The gzip framing  *)
(* (12 byte header, "MZ"/"BI"/"BO" extra subfields, 2 byte empty payload,  *)
(* 8 byte trailer) keeps the sizes and the byte layout of the source.      *)
(*                                                                         *)
(* zlib is not part of the repository.  Its DEFLATE engine is modelled by  *)
(* a block format with the structure the codec relies on: the stream is a  *)
(* sequence of blocks, each starting with a header that carries BFINAL     *)
(* (bit 0), BTYPE (bits 1-2, value 3 is invalid as in RFC 1951) and the    *)
(* block's length, followed by the block's bytes.  deflate() with          *)
(* Z_FULL_FLUSH ends the data block and appends an empty block (zlib's     *)
(* empty stored block); Z_FINISH sets BFINAL on the last block.  inflate() *)
(* with Z_BLOCK returns at the end of every block and reports              *)
(* Z_STREAM_END on the call that follows the end of the final block.       *)
(*                                                                         *)
(* MZGF_BLOCK_SIZE (0xff00) and GZIP_FEXTRA_MAX (0xFFFF) are scaled down   *)
(* so that inputs of several blocks and chained index members are within   *)
(* reach; CRC32 is scaled to 16 bits.  With MZGF_BLOCK_SIZE >= 3 the       *)
(* output of a Z_FULL_FLUSH call never ends exactly at the end of the      *)
(* output buffer, so the Z_BUF_ERROR return of _flush stays out of reach.  *)
(*                                                                         *)
(* Specifications, all over the same variables: Spec (deflate, open, read, *)
(* seeks, close), SpecFiles (files changed before open, a second deflate), *)
(* SpecIO (a write that fails), SpecCli (the mzgzip command), SpecSearch  *)
(* (useek over any index), SpecReuse (a reader opened a second time).      *)
(***************************************************************************)
EXTENDS Integers, Sequences, FiniteSets, TLC

\* ---- bounds of the model ------------------------------------------------
\* scaled MZGF_BLOCK_SIZE: bytes per uncompressed block and per buffer
MZGF_BLOCK_SIZE == 3
\* scaled GZIP_FEXTRA_MAX: size of the extra_bindex staging buffer
GZIP_FEXTRA_MAX == 60
\* longest input given to deflate
MaxLen == 7
\* largest size asked of read()
MaxReq == 4
\* the writer's m_mtime (time(NULL) at construction)
MTime == 1

\* ---- program constants --------------------------------------------------
GZIP_MAGIC_ID1   == 31
GZIP_MAGIC_ID2   == 139
GZIP_CM_DEFLATED == 8
GZIP_FEXTRA_FLG  == 4
GZIP_OS          == 3
MZGF_VERSION     == 1
MZGF_NOT_GZIP    == 3
MZGF_NOT_MZGZIP  == 4
MZGF_ERR_HEADER  == 5
MZGF_BAD_FORMAT  == 6
MZGF_BAD_VERSION == 7
\* bits of a virtual offset that hold the offset into the block
VOFF_BITS == 16

Min(a, b) == IF a < b THEN a ELSE b

RECURSIVE Pow2(_)
Pow2(k) == IF k = 0 THEN 1 ELSE 2 * Pow2(k - 1)

\* value >> k
RECURSIVE Shr(_, _)
Shr(v, k) == IF k = 0 \/ v = 0 THEN v ELSE Shr(v \div 2, k - 1)

\* value << k
Shl(v, k) == v * Pow2(k)

RECURSIVE BitXor(_, _)
BitXor(a, b) ==
   IF a = 0 THEN b
   ELSE IF b = 0 THEN a
   ELSE ((a + b) % 2) + 2 * BitXor(a \div 2, b \div 2)

RECURSIVE Zeros(_)
Zeros(n) == IF n <= 0 THEN << >> ELSE <<0>> \o Zeros(n - 1)

\* the bytes s[from+1 .. from+n] of a buffer (0-based offset from)
Bytes(s, from, n) == SubSeq(s, from + 1, from + n)

\* buf with the bytes bs stored at 0-based offset at (memcpy / pack into)
Store(buf, at, bs) ==
   SubSeq(buf, 1, at) \o bs \o SubSeq(buf, at + Len(bs) + 1, Len(buf))

\* ---- Byte packer --------------------------------------------------------
packInt16(value) == << value % 256, Shr(value, 8) % 256 >>

packInt32(value) ==
   << value % 256, Shr(value, 8) % 256, Shr(value, 16) % 256,
      Shr(value, 24) % 256 >>

packInt64(value) ==
   << value % 256, Shr(value, 8) % 256, Shr(value, 16) % 256,
      Shr(value, 24) % 256, Shr(value, 32) % 256, Shr(value, 40) % 256,
      Shr(value, 48) % 256, Shr(value, 56) % 256 >>

\* buffer[0] | buffer[1] << 8
unpackInt16(b) == b[1] + 256 * b[2]

\* the fifth byte is shifted out of the 32 bit result
unpackInt32(b) == b[1] + 256 * (b[2] + 256 * (b[3] + 256 * b[4]))

unpackInt64(b) ==
   b[1] + 256 * (b[2] + 256 * (b[3] + 256 * (b[4] + 256 * (b[5] + 256 *
      (b[6] + 256 * (b[7] + 256 * b[8]))))))

\* ---- CRC (zlib crc32, scaled to 16 bits) --------------------------------
CRC_POLY == 40961
CRC_MASK == 65535

RECURSIVE CrcBits(_, _)
CrcBits(c, k) ==
   IF k = 0 THEN c
   ELSE IF c % 2 = 1 THEN CrcBits(BitXor(c \div 2, CRC_POLY), k - 1)
   ELSE CrcBits(c \div 2, k - 1)

RECURSIVE CrcRun(_, _)
CrcRun(c, buf) ==
   IF buf = << >> THEN c
   ELSE CrcBits(BitXor(CrcRun(c, SubSeq(buf, 1, Len(buf) - 1)), buf[Len(buf)]), 8)

\* crc32( crc, buf, len ): the running checksum crc extended by buf;
\* crc32( 0L, NULL, 0L ) is crc32(0, <<>>) = 0
crc32(crc, buf) == BitXor(CrcRun(BitXor(crc, CRC_MASK), buf), CRC_MASK)

\* ---- DEFLATE engine: compression ----------------------------------------
BlockHdr(last, len) == (IF last THEN 1 ELSE 0) + 8 * len
HdrLast(h)  == h % 2 = 1
HdrType(h)  == (h \div 2) % 4
HdrLen(h)   == h \div 8

\* all the output ::deflate produces for the input chunk under the flush
\* mode; the caller collects it MZGF_BLOCK_SIZE bytes at a time
DeflateOut(chunk, finish) ==
   IF finish
   THEN <<BlockHdr(TRUE, Len(chunk))>> \o chunk
   ELSE <<BlockHdr(FALSE, Len(chunk))>> \o chunk \o <<BlockHdr(FALSE, 0)>>

\* ---- static data --------------------------------------------------------
gzheader ==
   << GZIP_MAGIC_ID1, GZIP_MAGIC_ID2, 8, GZIP_FEXTRA_FLG, 0, 0, 0, 0, 0,
      GZIP_OS, 0, 0 >>

\* 'M' 'Z', len 1, version
extra_mzgf_init == << 77, 90, 1, 0, MZGF_VERSION >>

\* 'B' 'O', len 16, size of file, offset of the first block index
extra_eof_init == << 66, 79, 16, 0 >> \o Zeros(16)

\* 'B' 'I', len, offset of the next index member, entries
extra_bindex_init == << 66, 73 >> \o Zeros(GZIP_FEXTRA_MAX - 2)

\* 0x03 0x00: the "empty" compressed contents
EmptyPayload == << 3, 0 >>


\* ---- MZGFileWriter ------------------------------------------------------
\* A writer context c is [w |-> the MZGFileWriter object, g |-> the
\* file-scope buffers extra_mzgf, extra_eof, extra_bindex].  w.fp holds
\* the bytes written to dst so far, w.ret the value the step returns.
\* The stream dst: w.nwrite counts the fwrite calls made on it, w.wrote is
\* the value the last one returned, w.ferr its error indicator.  Call
\* number w.failAt (0: none) fails after w.short bytes; with w.persist
\* every later call fails too (a full device), without it later calls
\* write (the condition passed).  w.hdrs counts the member headers begun,
\* w.failHdrs is w.hdrs at the first failed write.

\* MZGFileWriter::MZGFileWriter
WriterNew ==
   [ mtime |-> MTime, bindex_offset |-> 0, bindex |-> << >>, fp |-> << >>,
     zoffset |-> 0, uoffset |-> 0, usize |-> 0, ucrc32 |-> 0,
     error |-> "", ret |-> 0,
     nwrite |-> 0, wrote |-> 0, ferr |-> FALSE, failAt |-> 0, short |-> 0,
     persist |-> FALSE, hdrs |-> 0, failHdrs |-> 0 ]

GlobalsInit ==
   [ extra_mzgf |-> extra_mzgf_init, extra_eof |-> extra_eof_init,
     extra_bindex |-> extra_bindex_init ]

\* the bytes call number n of fwrite on the stream of c accepts of len
fwrite_count(c, n, len) ==
   IF len > 0 /\ c.w.failAt # 0
      /\ (n = c.w.failAt \/ (c.w.persist /\ n > c.w.failAt))
   THEN IF n = c.w.failAt THEN Min(c.w.short, len - 1) ELSE 0
   ELSE len

\* the stream of c after a fwrite of buf that accepted n bytes; a short
\* count sets the error indicator, which stays set
fwrite_n(c, buf, n) ==
   [c EXCEPT !.w.fp = @ \o Bytes(buf, 0, n),
             !.w.nwrite = @ + 1,
             !.w.wrote = n,
             !.w.failHdrs = IF ~c.w.ferr /\ n < Len(buf) THEN c.w.hdrs ELSE @,
             !.w.ferr = @ \/ n < Len(buf)]

\* fwrite( buf, 1, len, m_fp )
fwrite(c, buf) == fwrite_n(c, buf, fwrite_count(c, c.w.nwrite + 1, Len(buf)))

\* an error indicator that is never found set
ferror_never(c) == FALSE

\* ferror( m_fp )
ferror(c) == c.w.ferr

\* fwrite( ... ) != have || ferror( m_fp ), after the fwrite
WriteFailed(c, have) == c.w.wrote # have \/ ferror(c)

\* return( errno || -1 ) with m_error = std::strerror( errno )
WriteError(c) == [c EXCEPT !.w.error = "write error", !.w.ret = 1]

\* after a fwrite of _write_header: a failure sets m_error and nothing else
HeaderWritten(c, have) ==
   [c EXCEPT !.w.zoffset = @ + have,
             !.w.error = IF WriteFailed(c, have) THEN "write error" ELSE @]

\* the if ( extralen ) part of _write_header; the value returned is 0
HeaderExtra(c, extra, extralen) ==
   [(IF extralen # 0
     THEN HeaderWritten(fwrite(c, Bytes(extra, 0, extralen)), extralen)
     ELSE c) EXCEPT !.w.ret = 0]

_write_header(c, extra, extralen) ==
   HeaderExtra(
      HeaderWritten(
         fwrite([c EXCEPT !.w.hdrs = @ + 1],
                Bytes(gzheader, 0, 4) \o packInt32(c.w.mtime)
                   \o Bytes(gzheader, 8, 2) \o packInt16(extralen)),
         Len(gzheader)),
      extra, extralen)

\* the do { ::deflate; fwrite } while ( 0 == avail_out ) loop of _flush;
\* pending is the output the engine still holds, again is TRUE from the
\* second pass on.  A call that finds no input and no output left returns
\* Z_STREAM_END under Z_FINISH and Z_BUF_ERROR under Z_FULL_FLUSH.
RECURSIVE _flush_loop(_, _, _, _)

\* the loop after its fwrite of have bytes, rest being still to come
FlushWritten(c, have, rest, finish) ==
   IF WriteFailed(c, have) THEN WriteError(c)
   ELSE IF have = MZGF_BLOCK_SIZE
   THEN _flush_loop([c EXCEPT !.w.zoffset = @ + have], rest, finish, TRUE)
   ELSE [c EXCEPT !.w.zoffset = @ + have, !.w.ret = 0]

_flush_loop(c, pending, finish, again) ==
   IF again /\ pending = << >> /\ ~finish
   THEN [c EXCEPT !.w.error = "buffer error", !.w.ret = 1]
   ELSE FlushWritten(
           fwrite(c, Bytes(pending, 0, Min(MZGF_BLOCK_SIZE, Len(pending)))),
           Min(MZGF_BLOCK_SIZE, Len(pending)),
           Bytes(pending, MZGF_BLOCK_SIZE, Len(pending) - MZGF_BLOCK_SIZE),
           finish)

\* _flush with the checksum started afresh for every block
_flush_crc_per_block(c, ublock) ==
   _flush_loop([c EXCEPT !.w.usize = @ + Len(ublock),
                         !.w.ucrc32 = crc32(0, ublock)],
               DeflateOut(ublock, Len(ublock) < MZGF_BLOCK_SIZE),
               Len(ublock) < MZGF_BLOCK_SIZE, FALSE)

\* ublock is m_ublock[0 .. avail_in)
_flush(c, ublock) ==
   _flush_loop([c EXCEPT !.w.usize = @ + Len(ublock),
                         !.w.ucrc32 = crc32(@, ublock)],
               DeflateOut(ublock, Len(ublock) < MZGF_BLOCK_SIZE),
               Len(ublock) < MZGF_BLOCK_SIZE, FALSE)

\* the write of _write_empty and of _write_trailer: on failure the error is
\* returned, otherwise m_zoffset advances
Written(c, have) ==
   IF WriteFailed(c, have) THEN WriteError(c)
   ELSE [c EXCEPT !.w.zoffset = @ + have, !.w.ret = 0]

\* _write_empty without the clearing of m_usize and m_ucrc32
_write_empty_no_clear(c) == Written(fwrite(c, EmptyPayload), Len(EmptyPayload))

\* the "clear" part of _write_empty, reached when the write succeeded
Cleared(c) ==
   IF c.w.ret # 0 THEN c
   ELSE [c EXCEPT !.w.usize = 0, !.w.ucrc32 = crc32(0, << >>)]

_write_empty(c) == Cleared(Written(fwrite(c, EmptyPayload), Len(EmptyPayload)))

_write_trailer(c) ==
   Written(fwrite(c, packInt32(c.w.ucrc32) \o packInt32(c.w.usize)), 8)

\* if ( 0 != (ret = _write_empty()) ) return ret;
ThenEmpty(c) == IF c.w.ret # 0 THEN c ELSE _write_empty(c)

\* if ( 0 != (ret = _write_trailer()) ) return ret;
ThenTrailer(c) == IF c.w.ret # 0 THEN c ELSE _write_trailer(c)

\* _write_header, _write_empty, _write_trailer for the first extralen bytes
\* of the buffer that extra names, each returning at an error
WriteMember(c, extra, extralen) ==
   ThenTrailer(ThenEmpty(_write_header(c, c.g[extra], extralen)))

\* the entries of a full index member: the first k with
\* 12 + 16 k + 16 >= sizeof(extra_bindex)
EntriesPerMember == (GZIP_FEXTRA_MAX - 28 + 15) \div 16

\* extra_bindex with LEN counting the subfield id and LEN themselves
BindexHead_whole_subfield(eb, offset, next) ==
   Store(Store(eb, 2, packInt16(offset)), 4, packInt64(next))

\* extra_bindex with LEN and the offset of the next index member stored
BindexHead(eb, offset, next) ==
   Store(Store(eb, 2, packInt16(offset - 4)), 4, packInt64(next))

\* one gzip member carrying the first offset bytes of extra_bindex
_write_bindex_member(c, offset, isLast) ==
   WriteMember(
      [c EXCEPT !.g.extra_bindex =
                   BindexHead(@, offset,
                              IF isLast THEN 0
                              ELSE c.w.zoffset + Len(gzheader) + offset
                                      + 2 + 8)],
      "extra_bindex", offset)

\* the for loop of _write_bindex from entry i (1-based) on, offset bytes of
\* extra_bindex being filled
RECURSIVE _write_bindex_loop(_, _, _)

\* after the member that ends with entry i: return ret, or offset = 12 and
\* on with the next entry
MemberWritten(c, i) ==
   IF c.w.ret # 0 THEN c ELSE _write_bindex_loop(c, i + 1, 12)

\* the loop splitting only when the next entry would end past the buffer
BindexPacked_late(c, i, offset) ==
   IF offset + 16 > GZIP_FEXTRA_MAX \/ i = Len(c.w.bindex)
   THEN MemberWritten(_write_bindex_member(c, offset, i = Len(c.w.bindex)), i)
   ELSE _write_bindex_loop(c, i + 1, offset)

\* the loop after entry i is packed, offset bytes of extra_bindex filled
BindexPacked(c, i, offset) ==
   IF offset + 16 >= GZIP_FEXTRA_MAX \/ i = Len(c.w.bindex)
   THEN MemberWritten(_write_bindex_member(c, offset, i = Len(c.w.bindex)), i)
   ELSE _write_bindex_loop(c, i + 1, offset)

_write_bindex_loop(c, i, offset) ==
   IF i > Len(c.w.bindex) THEN [c EXCEPT !.w.ret = 0]
   ELSE BindexPacked(
           [c EXCEPT !.g.extra_bindex =
                        Store(Store(@, offset,
                                    packInt64(c.w.bindex[i].zoffset)),
                              offset + 8, packInt64(c.w.bindex[i].uoffset))],
           i, offset + 16)

_write_bindex(c) ==
   _write_bindex_loop([c EXCEPT !.w.bindex_offset = c.w.zoffset], 1, 12)

_write_eof(c) ==
   WriteMember(
      [c EXCEPT !.g.extra_eof =
                   Store(Store(@, 4, packInt64(c.w.uoffset)),
                         12, packInt64(c.w.bindex_offset))],
      "extra_eof", Len(extra_eof_init))

\* fread( m_ublock, 1, sizeof(m_ublock), src ) at position pos of src
fread_src(src, pos) == Bytes(src, pos, Min(MZGF_BLOCK_SIZE, Len(src) - pos))

\* feof( src ) after that fread: the read asked for more than was left
feof_src(src, pos) == Len(src) - pos < MZGF_BLOCK_SIZE

\* the loop of deflate with the index entry taken after the block is flushed
RECURSIVE deflate_loop_entry_late(_, _, _)
deflate_loop_entry_late(c, src, pos) ==
   LET ublock == fread_src(src, pos)
       c1 == _flush([c EXCEPT !.w.uoffset = @ + Len(ublock)], ublock)
       bi == [zoffset |-> c1.w.zoffset, uoffset |-> c.w.uoffset]
       c2 == [c1 EXCEPT !.w.bindex = Append(@, bi)]
   IN IF c1.w.ret # 0 \/ feof_src(src, pos) THEN c2
      ELSE deflate_loop_entry_late(c2, src, pos + Len(ublock))

\* the do { ... } while ( !feof(src) ) loop of deflate, src read up to pos
RECURSIVE deflate_loop(_, _, _)

\* the loop after _flush: return ret, or go round while ( !feof(src) )
Flushed(c, src, pos) ==
   IF c.w.ret # 0 \/ feof_src(src, pos) THEN c
   ELSE deflate_loop(c, src, pos + MZGF_BLOCK_SIZE)

deflate_loop(c, src, pos) ==
   Flushed(_flush([c EXCEPT !.w.bindex =
                               Append(@, [zoffset |-> c.w.zoffset,
                                          uoffset |-> c.w.uoffset]),
                            !.w.uoffset = @ + Len(fread_src(src, pos))],
                  fread_src(src, pos)),
           src, pos)

\* if ( ret ) return ret; after the first _write_header, then the loop
ThenBlocks(c, src) == IF c.w.ret # 0 THEN c ELSE deflate_loop(c, src, 0)

\* if ( 0 != (ret = _write_bindex()) ) return ret;
ThenBindex(c) == IF c.w.ret # 0 THEN c ELSE _write_bindex(c)

\* if ( 0 != (ret = _write_eof()) ) return ret;
ThenEof(c) == IF c.w.ret # 0 THEN c ELSE _write_eof(c)

\* deflate from the first _write_header on
deflate_members(c, src) ==
   ThenEof(ThenBindex(ThenTrailer(ThenBlocks(
      _write_header(c, c.g.extra_mzgf, Len(extra_mzgf_init)), src))))

\* MZGFileWriter::deflate( src, dst ), dst a stream just opened for writing
deflate(c, src) ==
   deflate_members(
      [c EXCEPT !.w.fp = << >>, !.w.nwrite = 0, !.w.wrote = 0,
                !.w.ferr = FALSE, !.w.hdrs = 0, !.w.failHdrs = 0,
                !.w.uoffset = 0, !.w.usize = 0,
                !.w.ucrc32 = crc32(0, << >>), !.w.zoffset = 0],
      src)


\* ---- INFLATE engine -----------------------------------------------------
\* z_stream of the reader: in is next_in[0 .. avail_in); mode is "TYPE" at
\* the start of a block, "COPY" inside one (rem bytes of it to come),
\* "DONE" after the final block, "BAD" after invalid data; last is BFINAL
\* of the block being (or last) decoded.

\* inflateInit2 with avail_in = 0
InflateInit == [ in |-> << >>, mode |-> "TYPE", last |-> FALSE, rem |-> 0 ]

\* inflate not stopping at the end of the final block: the end of the
\* stream is reported by the call that delivers the last bytes
InflateCopy_through_end(zs, in, rem, last) ==
   LET n == Min(Min(rem, Len(in)), MZGF_BLOCK_SIZE)
   IN [ zs   |-> [ in |-> Bytes(in, n, Len(in) - n), rem |-> rem - n,
                   last |-> last,
                   mode |-> IF rem - n # 0 THEN "COPY"
                            ELSE IF last THEN "DONE" ELSE "TYPE" ],
        out  |-> Bytes(in, 0, n),
        code |-> IF rem - n = 0 /\ last THEN "Z_STREAM_END" ELSE "Z_OK" ]

\* the bytes of the current block that one call can deliver
InflateCopy(zs, in, rem, last) ==
   LET n == Min(Min(rem, Len(in)), MZGF_BLOCK_SIZE)
   IN [ zs   |-> [ in |-> Bytes(in, n, Len(in) - n), rem |-> rem - n,
                   last |-> last,
                   mode |-> IF rem - n = 0 THEN "TYPE" ELSE "COPY" ],
        out  |-> Bytes(in, 0, n),
        code |-> "Z_OK" ]

\* ::inflate( &m_zs, Z_BLOCK ) with avail_out = MZGF_BLOCK_SIZE
Inflate(zs) ==
   IF zs.mode = "BAD"
   THEN [ zs |-> zs, out |-> << >>, code |-> "Z_DATA_ERROR" ]
   ELSE IF zs.mode = "DONE" \/ (zs.mode = "TYPE" /\ zs.last)
   THEN [ zs |-> [zs EXCEPT !.mode = "DONE"], out |-> << >>,
          code |-> "Z_STREAM_END" ]
   ELSE IF zs.in = << >>
   THEN [ zs |-> zs, out |-> << >>, code |-> "Z_BUF_ERROR" ]
   ELSE IF zs.mode = "COPY"
   THEN InflateCopy(zs, zs.in, zs.rem, zs.last)
   ELSE IF HdrType(Head(zs.in)) # 0
   THEN [ zs |-> [zs EXCEPT !.mode = "BAD"], out |-> << >>,
          code |-> "Z_DATA_ERROR" ]
   ELSE InflateCopy(zs, Tail(zs.in), HdrLen(Head(zs.in)),
                    HdrLast(Head(zs.in)))

\* ---- MZGFileReader ------------------------------------------------------
\* A reader context c is [r |-> the MZGFileReader object, g |-> the
\* file-scope buffers, file |-> the bytes of the file m_fp is open on].
\* r.fpos and r.feof are the position and the end-of-file indicator of
\* m_fp; r.ret is the value the call returns, r.data the bytes read()
\* copied to the caller, r.exit the status the process ended with (0: still
\* running), r.hang that the call never returns.

\* MZGFileReader::MZGFileReader
ReaderNew ==
   [ version |-> 255, mtime |-> 0, fp |-> "NULL", fpos |-> 0,
     feof |-> FALSE, ufilesize |-> -1, zfilesize |-> -1, isEOF |-> FALSE,
     zoffset |-> 0, uoffset |-> 0, blen |-> 0, boffset |-> 0,
     ublock |-> << >>, bindex |-> << >>, bindex_offset |-> 0,
     zs |-> InflateInit, error |-> "", ret |-> 0, data |-> << >>,
     exit |-> 0, hang |-> FALSE ]

\* the bytes fread( buf, 1, n, m_fp ) delivers
fread_n(c, n) ==
   IF c.r.fpos >= Len(c.file) THEN << >>
   ELSE Bytes(c.file, c.r.fpos, Min(n, Len(c.file) - c.r.fpos))

\* the stream after that fread
fread_adv(c, n) ==
   [c EXCEPT !.r.fpos = @ + Len(fread_n(c, n)),
             !.r.feof = @ \/ Len(fread_n(c, n)) < n]

\* fseek( m_fp, offset, SEEK_SET ), offset >= 0
fseek_set(c, offset) == [c EXCEPT !.r.fpos = offset, !.r.feof = FALSE]

Fail(c, code, msg) == [c EXCEPT !.r.ret = code, !.r.error = msg]

\* extra names the buffer the extra field is read into
_read_header(c, extra, extralen) ==
   LET zblock == fread_n(c, Len(gzheader))
       c1 == fread_adv(c, Len(gzheader))
   IN IF Len(zblock) # Len(gzheader)
      THEN Fail(c1, MZGF_ERR_HEADER, "read incomplete gzip header")
      ELSE
      LET c2 == [c1 EXCEPT !.r.zoffset = @ + Len(gzheader)]
      IN IF zblock[1] # GZIP_MAGIC_ID1 \/ zblock[2] # GZIP_MAGIC_ID2
            \/ zblock[3] # GZIP_CM_DEFLATED
         THEN Fail(c2, MZGF_NOT_GZIP, "not in gzip format")
         ELSE
         LET c3   == [c2 EXCEPT !.r.mtime = unpackInt32(Bytes(zblock, 4, 4))]
             flag == zblock[4]
             xlen == unpackInt16(Bytes(zblock, 10, 2))
         IN IF (flag \div GZIP_FEXTRA_FLG) % 2 = 0 /\ xlen = 0
            THEN Fail(c3, MZGF_BAD_FORMAT,
                      "missing extra field(s) in gzip header")
            ELSE IF xlen > extralen
            THEN Fail(c3, MZGF_BAD_FORMAT,
                      "length extra fields exceeded expectation")
            ELSE
            LET got == fread_n(c3, xlen)
                c4  == [fread_adv(c3, xlen)
                          EXCEPT !.g[extra] = Store(@, 0, got)]
            IN IF Len(got) # xlen
               THEN Fail(c4, MZGF_ERR_HEADER, "read incomplete gzip extras")
               ELSE [c4 EXCEPT !.r.zoffset = @ + xlen, !.r.ret = 0]

\* sizeof(gzheader) + sizeof(extra_eof) + 2 + 4 + 4
EofMemberSize == Len(gzheader) + Len(extra_eof_init) + 2 + 4 + 4

_read_eof(c) ==
   LET pos == c.r.fpos
   IN IF Len(c.file) < EofMemberSize
      THEN Fail(c, 1, "Invalid argument")
      ELSE
      LET c1 == _read_header(fseek_set(c, Len(c.file) - EofMemberSize),
                             "extra_eof", Len(extra_eof_init))
          ee == c1.g.extra_eof
      IN IF c1.r.ret # 0 THEN c1
         ELSE IF ee[1] = 66 \/ ee[2] = 79
         THEN [fseek_set(c1, pos)
                 EXCEPT !.r.ufilesize = unpackInt64(Bytes(ee, 4, 8)),
                        !.r.bindex_offset = unpackInt64(Bytes(ee, 12, 8)),
                        !.r.ret = 0]
         ELSE Fail(c1, MZGF_BAD_FORMAT, "missing MZGF block index offset")

\* the loop of _read_bindex stopping one entry early
RECURSIVE _read_bindex_entries_short(_, _, _)
_read_bindex_entries_short(eb, i, count) ==
   IF i + 16 >= count THEN << >>
   ELSE << [ zoffset |-> unpackInt64(Bytes(eb, i, 8)),
             uoffset |-> unpackInt64(Bytes(eb, i + 8, 8)) ] >>
        \o _read_bindex_entries_short(eb, i + 16, count)

\* the for ( i = 12; i < count; ) loop of _read_bindex
RECURSIVE _read_bindex_entries(_, _, _)
_read_bindex_entries(eb, i, count) ==
   IF i >= count THEN << >>
   ELSE << [ zoffset |-> unpackInt64(Bytes(eb, i, 8)),
             uoffset |-> unpackInt64(Bytes(eb, i + 8, 8)) ] >>
        \o _read_bindex_entries(eb, i + 16, count)

\* most entries m_bindex can hold: push_back beyond throws std::bad_alloc
MaxBindex == 8

\* the loop of _read_bindex never ends: it is at the offset of a member it
\* has read before, with m_bindex as it was then
Hang(c) == [c EXCEPT !.r.hang = TRUE]

\* std::bad_alloc out of push_back, not caught: the process aborts
Abort(c) == [c EXCEPT !.r.exit = 134, !.r.error = "std::bad_alloc"]

\* the while ( offset ) loop of _read_bindex; seen[o] is the size of
\* m_bindex when the member at offset o was read last
RECURSIVE _read_bindex_loop(_, _, _, _)

\* the loop after the header of the member at offset was read
_read_bindex_member(c, offset, pos, seen) ==
   IF c.r.ret # 0 THEN c
   ELSE IF c.g.extra_bindex[1] = 66 \/ c.g.extra_bindex[2] = 73
   THEN _read_bindex_loop(
           [c EXCEPT !.r.bindex = @ \o _read_bindex_entries(
                        c.g.extra_bindex, 12,
                        unpackInt16(Bytes(c.g.extra_bindex, 2, 2)))],
           unpackInt64(Bytes(c.g.extra_bindex, 4, 8)), pos,
           [ o \in DOMAIN seen \cup { offset } |->
                IF o = offset THEN Len(c.r.bindex) ELSE seen[o] ])
   ELSE Fail(c, MZGF_BAD_FORMAT, "missing MZGF block index")

_read_bindex_loop(c, offset, pos, seen) ==
   IF Len(c.r.bindex) > MaxBindex THEN Abort(c)
   ELSE IF offset = 0 THEN [fseek_set(c, pos) EXCEPT !.r.ret = 0]
   ELSE IF offset \in DOMAIN seen /\ seen[offset] = Len(c.r.bindex)
   THEN Hang(c)
   ELSE _read_bindex_member(
           _read_header(fseek_set(c, offset), "extra_bindex",
                        GZIP_FEXTRA_MAX),
           offset, pos, seen)

_read_bindex(c) ==
   _read_bindex_loop(c, c.r.bindex_offset, c.r.fpos, << >>)

\* MZGFileReader::open( path ), path naming an existing file
open(c) ==
   LET c0 == [c EXCEPT !.r.fp = "open", !.r.fpos = 0, !.r.feof = FALSE,
                       !.r.isEOF = FALSE, !.r.zoffset = 0, !.r.uoffset = 0,
                       !.r.zs = InflateInit, !.r.data = << >>]
       c1 == _read_header(c0, "extra_mzgf", Len(extra_mzgf_init))
   IN IF c1.r.ret # 0 THEN c1
      ELSE IF c1.g.extra_mzgf[1] # 77 \/ c1.g.extra_mzgf[2] # 90
      THEN Fail(c1, MZGF_NOT_MZGZIP, "not in MZGF format")
      ELSE
      LET c2 == [c1 EXCEPT !.r.version = c1.g.extra_mzgf[5]]
      IN IF c2.r.version # MZGF_VERSION
         THEN Fail(c2, MZGF_BAD_VERSION, "incompatible MZGF version")
         ELSE
         LET c3 == _read_eof(c2)
         IN IF c3.r.ret # 0 THEN c3
            ELSE
            LET c4 == _read_bindex(c3)
            IN IF c4.r.ret # 0 \/ c4.r.hang \/ c4.r.exit # 0 THEN c4
               ELSE [c4 EXCEPT !.r.zfilesize = Len(c.file), !.r.ret = 0]

\* MZGFileReader::close
close(c) == [c EXCEPT !.r.fp = "NULL"]


\* exit( status ) after printing the zlib message
Exit(c, status, msg) ==
   [c EXCEPT !.r.exit = status, !.r.error = msg, !.r.ret = -1]

\* MZGFileReader::_read_block; r.ret is the value returned
_read_block(c) ==
   LET need == c.r.zs.in = << >>
       in   == fread_n(c, MZGF_BLOCK_SIZE)
       c1   == IF need
               THEN [fread_adv(c, MZGF_BLOCK_SIZE) EXCEPT !.r.zs.in = in]
               ELSE c
   IN IF need /\ in = << >>
      THEN Fail(c1, -1, "read past end of file")
      ELSE
      LET c2  == IF need THEN [c1 EXCEPT !.r.zoffset = @ + Len(in)] ELSE c1
          inf == Inflate(c2.r.zs)
          c3  == [c2 EXCEPT !.r.zs = inf.zs]
      IN IF inf.code = "Z_STREAM_ERROR" THEN Exit(c3, 2, inf.code)
         ELSE IF inf.code \notin {"Z_OK", "Z_STREAM_END"}
         THEN Exit(c3, 1, inf.code)
         ELSE
         LET eof1 == IF inf.code = "Z_STREAM_END" THEN TRUE ELSE c3.r.isEOF
         IN [c3 EXCEPT !.r.ublock = inf.out,
                       !.r.blen = Len(inf.out),
                       !.r.uoffset = @ + Len(inf.out),
                       !.r.isEOF = eof1 \/ (c3.r.feof /\ Len(inf.zs.in) <= 8),
                       !.r.ret = Len(inf.out)]

\* the while ( copied < size ) loop of read; r.data holds the bytes copied
RECURSIVE read_loop(_, _)
read_loop(c, size) ==
   IF Len(c.r.data) >= size THEN [c EXCEPT !.r.ret = Len(c.r.data)]
   ELSE
   LET refill == c.r.blen - c.r.boffset <= 0
       c1     == IF refill THEN _read_block(c) ELSE c
   IN IF refill /\ c1.r.ret = -1 THEN c1
      ELSE IF refill /\ c1.r.blen = 0
      THEN [c1 EXCEPT !.r.ret = Len(c1.r.data)]
      ELSE IF refill /\ c1.r.boffset > c1.r.blen
      THEN read_loop([c1 EXCEPT !.r.boffset = @ - c1.r.blen, !.r.blen = 0],
                     size)
      ELSE
      LET avail == c1.r.blen - c1.r.boffset
          have  == Min(size - Len(c1.r.data), avail)
          c2    == [c1 EXCEPT
                      !.r.data = @ \o Bytes(c1.r.ublock, c1.r.boffset, have),
                      !.r.boffset = @ + have]
          c3    == IF c2.r.boffset >= c2.r.blen
                   THEN [c2 EXCEPT !.r.blen = 0, !.r.boffset = 0]
                   ELSE c2
      IN read_loop(c3, size)

\* read without the test of eof() on entry
read_no_eof_test(c, size) == read_loop([c EXCEPT !.r.data = << >>], size)

\* MZGFileReader::read( data, size )
read(c, size) ==
   IF c.r.isEOF
   THEN [c EXCEPT !.r.error = "read past end of file", !.r.ret = -1,
                  !.r.data = << >>]
   ELSE read_loop([c EXCEPT !.r.data = << >>], size)

\* MZGFileReader::eof
eof(c) == c.r.isEOF

\* MZGFileReader::vtell
vtell(c) == c.r.zoffset

\* MZGFileReader::vseek( voffset ); fseek to a negative offset fails and
\* errno || -1 is returned
vseek(c, voffset) ==
   LET c1 == [c EXCEPT !.r.boffset = voffset % Pow2(VOFF_BITS)]
       zoffset == Shr(voffset, VOFF_BITS)
   IN IF zoffset = c.r.zoffset THEN [c1 EXCEPT !.r.ret = 0]
      ELSE IF zoffset < 0 THEN Fail(c1, 1, "Invalid argument")
      ELSE [fseek_set(c1, zoffset)
              EXCEPT !.r.zoffset = zoffset, !.r.blen = 0,
                     !.r.isEOF = FALSE, !.r.zs = InflateInit, !.r.ret = 0]

\* the binary search of useek without the step back after the loop
RECURSIVE useek_search_no_step_back(_, _, _, _)
useek_search_no_step_back(bindex, uoffset, lower, upper) ==
   IF lower < upper
   THEN LET mid == (lower + upper) \div 2
        IN IF uoffset < bindex[mid + 1].uoffset
           THEN useek_search_no_step_back(bindex, uoffset, lower, mid)
           ELSE useek_search_no_step_back(bindex, uoffset, mid + 1, upper)
   ELSE lower

\* the binary search of useek over bindex (0-based as in the source)
RECURSIVE useek_search(_, _, _, _)
useek_search(bindex, uoffset, lower, upper) ==
   IF lower < upper
   THEN LET mid == (lower + upper) \div 2
        IN IF uoffset < bindex[mid + 1].uoffset
           THEN useek_search(bindex, uoffset, lower, mid)
           ELSE useek_search(bindex, uoffset, mid + 1, upper)
   ELSE IF uoffset < bindex[lower + 1].uoffset THEN lower - 1 ELSE lower

\* MZGFileReader::useek( uoffset ), 0 <= uoffset, the index not empty
useek(c, uoffset) ==
   LET c0 == IF c.r.bindex = << >> THEN _read_bindex(c) ELSE c
   IN IF c.r.bindex = << >> /\ c0.r.ret # 0 THEN c0
      ELSE
      LET lower == useek_search(c0.r.bindex, uoffset, 0,
                                Len(c0.r.bindex) - 1)
          bi    == c0.r.bindex[lower + 1]
          c1    == [c0 EXCEPT !.r.boffset = uoffset - bi.uoffset]
      IN IF c1.r.zoffset = bi.zoffset THEN [c1 EXCEPT !.r.ret = 0]
         ELSE [fseek_set(c1, bi.zoffset)
                 EXCEPT !.r.zoffset = bi.zoffset, !.r.uoffset = uoffset,
                        !.r.blen = 0, !.r.isEOF = FALSE,
                        !.r.zs = InflateInit, !.r.ret = 0]


\* ---- the program as a state machine -------------------------------------
\* src: the input file; dst: the file deflate writes and open reads;
\* w, r: the writer and the reader object; g: the file-scope buffers;
\* phase: "new", "written", "open", "failed" (open returned an error),
\* "hung" (open never returns), "exit" (the process has ended) or "closed";
\* hist: the calls made, as the caller sees them.
VARIABLES src, dst, w, r, g, phase, hist

vars == << src, dst, w, r, g, phase, hist >>

\* largest number of seeks in one run
MaxSeeks == 1

\* the inputs: n bytes, each naming its place, for every n up to MaxLen
RECURSIVE Stamped(_)
Stamped(n) == IF n = 0 THEN << >> ELSE Append(Stamped(n - 1), 64 + n)

Inputs == { Stamped(n) : n \in 0..MaxLen }

\* hist.op, arg, ret, data: the last call, its argument, the value and the
\* bytes it returned; seq: only read() was called since open; got: the
\* bytes the reads since open returned, in order; stop: Len(got) when a
\* read since open first returned 0 or less or left eof() true (-1: not
\* yet); nseek: seeks made; nopen: opens made after a close.
HistInit ==
   [ op |-> "none", arg |-> 0, ret |-> 0, data |-> << >>,
     seq |-> FALSE, got |-> << >>, stop |-> -1, nseek |-> 0, nopen |-> 0 ]

Call(h, op, arg, ret, data) ==
   [h EXCEPT !.op = op, !.arg = arg, !.ret = ret, !.data = data]

ReaderCtx == [ r |-> r, g |-> g, file |-> dst ]
WriterCtx == [ w |-> w, g |-> g ]

Init ==
   /\ src \in Inputs
   /\ dst = << >>
   /\ w = WriterNew
   /\ r = ReaderNew
   /\ g = GlobalsInit
   /\ phase = "new"
   /\ hist = HistInit

Deflate ==
   /\ phase = "new"
   /\ \E c \in { deflate(WriterCtx, src) } :
         /\ w' = c.w
         /\ g' = c.g
         /\ dst' = c.w.fp
         /\ phase' = IF c.w.ret = 0 THEN "written" ELSE "failed"
         /\ hist' = Call(hist, "deflate", 0, c.w.ret, << >>)
   /\ UNCHANGED << src, r >>

Open ==
   /\ phase = "written"
   /\ \E c \in { open(ReaderCtx) } :
         /\ r' = c.r
         /\ g' = c.g
         /\ phase' = IF c.r.hang THEN "hung"
                     ELSE IF c.r.exit # 0 THEN "exit"
                     ELSE IF c.r.ret = 0 THEN "open" ELSE "failed"
         /\ hist' = [Call(hist, "open", 0, c.r.ret, << >>)
                       EXCEPT !.seq = TRUE, !.got = << >>, !.stop = -1]
   /\ UNCHANGED << src, dst, w >>

Running == phase = "open" /\ r.exit = 0

\* the record of a read that returned h.data; stopNow: it returned 0 or less
\* or left eof() true
Sequential(h, stopNow) ==
   IF h.seq
   THEN [h EXCEPT !.got = @ \o h.data,
                  !.stop = IF @ = -1 /\ stopNow
                           THEN Len(h.got) + Len(h.data) ELSE @]
   ELSE h

Read(n) ==
   /\ Running
   /\ \E c \in { read(ReaderCtx, n) } :
         /\ r' = c.r
         /\ g' = c.g
         /\ hist' = Sequential(Call(hist, "read", n, c.r.ret, c.r.data),
                               c.r.ret <= 0 \/ c.r.isEOF)
   /\ UNCHANGED << src, dst, w, phase >>

Seeked(h) == [h EXCEPT !.seq = FALSE, !.got = << >>, !.stop = -1,
                       !.nseek = @ + 1]

\* virtual offsets a caller holds: a block of the index with an offset
\* into it, the value of vtell(), the block the reader considers current
VOffsets ==
   { Shl(r.bindex[i].zoffset, VOFF_BITS) + b :
        i \in DOMAIN r.bindex, b \in 0..(MZGF_BLOCK_SIZE - 1) }
   \cup { vtell(ReaderCtx), Shl(r.zoffset, VOFF_BITS) }

VSeek(v) ==
   /\ Running
   /\ hist.nseek < MaxSeeks
   /\ \E c \in { vseek(ReaderCtx, v) } :
         /\ r' = c.r
         /\ g' = c.g
         /\ hist' = Seeked(Call(hist, "vseek", v, c.r.ret, << >>))
   /\ UNCHANGED << src, dst, w, phase >>

USeek(u) ==
   /\ Running
   /\ hist.nseek < MaxSeeks
   /\ \E c \in { useek(ReaderCtx, u) } :
         /\ r' = c.r
         /\ g' = c.g
         /\ hist' = Seeked(Call(hist, "useek", u, c.r.ret, << >>))
   /\ UNCHANGED << src, dst, w, phase >>

Close ==
   /\ Running
   /\ r' = close(ReaderCtx).r
   /\ phase' = "closed"
   /\ hist' = Call(hist, "close", 0, 0, << >>)
   /\ UNCHANGED << src, dst, w, g >>

Next ==
   \/ Deflate
   \/ Open
   \/ \E n \in 1..MaxReq : Read(n)
   \/ \E v \in VOffsets : VSeek(v)
   \/ \E u \in 0..Len(src) : USeek(u)
   \/ Close

Spec == Init /\ [][Next]_vars


\* ---- files handed to open, and a second deflate ------------------------
\* open( path ) reads whatever file the caller names.  The files here are
\* the ones deflate wrote with one byte replaced or with the end cut off.

\* offsets of FLG, XLEN and the subfield bytes in the opening member, the
\* first index member and the EOF member of dst
TamperAt ==
   { 0, 2, 3, 10, 12, 13, 16 }
   \cup { w.bindex_offset + 3, w.bindex_offset + 12, w.bindex_offset + 13 }
   \cup { Len(dst) - EofMemberSize + 3, Len(dst) - EofMemberSize + 12,
          Len(dst) - EofMemberSize + 13 }

\* the bytes put there: 0, 1, 6 and 'X'
TamperTo == { 0, 1, 6, 88 }

\* longest prefix a cut off file keeps
MaxCut == 17

Tamper(p, b) ==
   /\ phase = "written" /\ hist.op = "deflate"
   /\ dst[p + 1] # b
   /\ dst' = [dst EXCEPT ![p + 1] = b]
   /\ hist' = Call(hist, "tamper", p, b, << >>)
   /\ UNCHANGED << src, w, r, g, phase >>

Truncate(n) ==
   /\ phase = "written" /\ hist.op = "deflate"
   /\ dst' = SubSeq(dst, 1, n)
   /\ hist' = Call(hist, "truncate", n, 0, << >>)
   /\ UNCHANGED << src, w, r, g, phase >>

\* the index member at offset p of dst made to name the member at offset q,
\* itself or an earlier one, as the next; empty: its LEN set to 8, the size
\* of a subfield with no entry
Relink(p, q, empty) ==
   /\ phase = "written" /\ hist.op = "deflate"
   /\ dst' = Store(Store(dst, p + Len(gzheader) + 4, packInt64(q)),
                   p + Len(gzheader) + 2,
                   IF empty THEN packInt16(8)
                   ELSE Bytes(dst, p + Len(gzheader) + 2, 2))
   /\ hist' = Call(hist, "relink", p, q, << >>)
   /\ UNCHANGED << src, w, r, g, phase >>

\* the offsets of the index members of the file deflate wrote: the first,
\* and the one that follows a full one
IndexMemberAt ==
   { w.bindex_offset } \cup
   { w.bindex_offset + k * (Len(gzheader) + 12 + 16 * EntriesPerMember + 10) :
        k \in 1..((Len(w.bindex) - 1) \div EntriesPerMember) }

\* a second deflate of src in the same process, by a new MZGFileWriter
\* (fresh) or by the one that wrote dst; hist.data is what it writes
Redeflate(fresh) ==
   /\ phase \in { "written", "open", "failed" }
   /\ hist.op \in { "deflate", "open" }
   /\ \E c \in { deflate([ w |-> IF fresh THEN WriterNew ELSE w, g |-> g ],
                          src) } :
         /\ w' = c.w
         /\ g' = c.g
         /\ hist' = Call(hist, "redeflate", IF fresh THEN 1 ELSE 0,
                         c.w.ret, c.w.fp)
   /\ phase' = "rewritten"
   /\ UNCHANGED << src, dst, r >>

NextFiles ==
   \/ Deflate
   \/ \E p \in TamperAt, b \in TamperTo : Tamper(p, b)
   \/ \E n \in 0..MaxCut : Truncate(n)
   \/ \E p, q \in IndexMemberAt, empty \in BOOLEAN :
         q <= p /\ Relink(p, q, empty)
   \/ Open
   \/ \E fresh \in BOOLEAN : Redeflate(fresh)

SpecFiles == Init /\ [][NextFiles]_vars

\* ---- deflate to a stream on which a write fails --------------------------
\* the call of fwrite that fails is any of the first MaxFailAt
MaxFailAt == 26

\* the failing call accepts up to MaxShort bytes
MaxShort == 1

InitIO ==
   /\ src \in Inputs
   /\ dst = << >>
   /\ w \in { [WriterNew EXCEPT !.failAt = k, !.short = s, !.persist = p] :
                 k \in 1..MaxFailAt, s \in 0..MaxShort, p \in BOOLEAN }
   /\ r = ReaderNew
   /\ g = GlobalsInit
   /\ phase = "new"
   /\ hist = HistInit

NextIO ==
   \/ Deflate
   \/ Open

SpecIO == InitIO /\ [][NextIO]_vars


\* ---- the mzgzip command -------------------------------------------------
\* A run of decompress is [c |-> the reader context, ret |-> the variable
\* ret, out |-> the bytes written to the output].

\* opt_size when -s is not given (SSIZE_MAX, scaled)
SSIZE_MAX == 100

RECURSIVE decompress_loop(_, _, _, _)

\* the body of the loop after r.read( buffer, have )
decompress_read(c, size, out) ==
   IF c.r.exit # 0 \/ c.r.ret = -1 THEN [ c |-> c, ret |-> -1, out |-> out ]
   ELSE decompress_loop(c, size - c.r.ret, out \o c.r.data, c.r.ret)

\* while ( opt_size > 0 && !r.eof() ) of decompress
decompress_loop(c, size, out, ret) ==
   IF size > 0 /\ ~eof(c)
   THEN decompress_read(read(c, Min(size, MZGF_BLOCK_SIZE)), size, out)
   ELSE [ c |-> c, ret |-> ret, out |-> out ]

\* decompress after the seek: if ( -1 != ret ) the loop; then r.close()
decompress_seeked(c, size) ==
   IF c.r.ret # -1 THEN decompress_loop(c, size, << >>, c.r.ret)
   ELSE [ c |-> c, ret |-> -1, out |-> << >> ]

\* the seek opt_voffset or opt_uoffset asks for; ret stays 0 without one
decompress_seek(c, voffset, uoffset) ==
   IF voffset # -1 THEN vseek(c, voffset)
   ELSE IF uoffset # -1 THEN useek(c, uoffset)
   ELSE [c EXCEPT !.r.ret = 0]

\* decompress after r.open
decompress_opened(c, voffset, uoffset, size) ==
   IF c.r.ret # 0 THEN [ c |-> c, ret |-> -1, out |-> << >> ]
   ELSE decompress_seeked(decompress_seek(c, voffset, uoffset), size)

\* decompress( file ), the output written to stdout
decompress(c, voffset, uoffset, size) ==
   decompress_opened(open(c), voffset, uoffset, size)

\* contents( file )
contents(c) == IF c.r.ret # 0 THEN -1 ELSE 0

\* the status the process ends with: exit( ret ) of main, or the exit()
\* reached inside read
ExitStatus(c, ret) == IF c.r.exit # 0 THEN c.r.exit ELSE ret % 256

\* the values -v can name: the blocks of the index with an offset into
\* them, and an offset before the start of the file
OptVOffsets ==
   { Shl(w.bindex[i].zoffset, VOFF_BITS) + b :
        i \in DOMAIN w.bindex, b \in 0..(MZGF_BLOCK_SIZE - 1) }
   \cup { Shl(-1, VOFF_BITS) }

\* the options of a run: -v, or -u, or neither (-1: not given), and -s
Options ==
   { [ v |-> v, u |-> -1, s |-> s ] :
        v \in OptVOffsets, s \in (1..MaxReq) \cup { SSIZE_MAX } }
   \cup { [ v |-> -1, u |-> u, s |-> s ] :
        u \in -1..Len(src), s \in (1..MaxReq) \cup { SSIZE_MAX } }

\* mzgzip -d -c [-v voffset | -u uoffset] [-s size] on the file compress wrote
Decompress(opt) ==
   /\ phase = "written"
   /\ \E d \in { decompress(ReaderCtx, opt.v, opt.u, opt.s) } :
         /\ r' = close(d.c).r
         /\ g' = d.c.g
         /\ hist' = Call(hist, "decompress", opt,
                         ExitStatus(d.c, d.ret), d.out)
   /\ phase' = "exit"
   /\ UNCHANGED << src, dst, w >>

\* mzgzip -l on the file compress wrote
List ==
   /\ phase = "written"
   /\ \E c \in { open(ReaderCtx) } :
         /\ r' = c.r
         /\ g' = c.g
         /\ hist' = Call(hist, "list", 0, ExitStatus(c, contents(c)), << >>)
   /\ phase' = "exit"
   /\ UNCHANGED << src, dst, w >>

\* mzgzip file is Deflate, hist.ret being the value compress returns
NextCli ==
   \/ Deflate
   \/ \E opt \in Options : Decompress(opt)
   \/ List

SpecCli == Init /\ [][NextCli]_vars


\* ---- a reader used for a second file ------------------------------------
\* most opens after a close
MaxReopen == 1

\* close() and then open() of dst again on the same MZGFileReader
Reopen ==
   /\ phase = "closed"
   /\ hist.nopen < MaxReopen
   /\ \E c \in { open(ReaderCtx) } :
         /\ r' = c.r
         /\ g' = c.g
         /\ phase' = IF c.r.ret = 0 THEN "open" ELSE "failed"
         /\ hist' = [Call(hist, "open", 1, c.r.ret, << >>)
                       EXCEPT !.seq = TRUE, !.got = << >>, !.stop = -1,
                              !.nopen = @ + 1]
   /\ UNCHANGED << src, dst, w >>

NextReuse ==
   \/ Deflate
   \/ Open
   \/ \E n \in 1..MaxReq : Read(n)
   \/ Close
   \/ Reopen

SpecReuse == Init /\ [][NextReuse]_vars


\* ---- useek over any index -----------------------------------------------
\* The index of a file is whatever its "BI" members hold.  The reader here
\* has opened a file whose index has up to MaxEntries entries, the uoffsets
\* strictly increasing from 0 up to MaxUoffset, and is asked to seek to any
\* uoffset up to MaxUoffset + 1.  useek reads no byte of the file.

\* most entries of an index
MaxEntries == 4

\* largest uoffset of an entry
MaxUoffset == 6

\* the increasing sequence of the elements of a set of numbers
RECURSIVE Ascending(_)
Ascending(S) ==
   IF S = {} THEN << >>
   ELSE LET m == CHOOSE x \in S : \A y \in S : y <= x
        IN Append(Ascending(S \ {m}), m)

\* the index with the given uoffsets, the blocks one after the other from
\* the end of the opening header
IndexOf(uoffsets) ==
   [ i \in 1..Len(uoffsets) |->
        [ zoffset |-> Len(gzheader) + Len(extra_mzgf_init) + 10 * (i - 1),
          uoffset |-> uoffsets[i] ] ]

Indexes ==
   { IndexOf(<< 0 >> \o Ascending(S)) :
        S \in { T \in SUBSET (1..MaxUoffset) : Cardinality(T) < MaxEntries } }

\* the reader as open leaves it, at the start of the first block
InitSearch ==
   /\ src = << >>
   /\ dst = << >>
   /\ w = WriterNew
   /\ r \in { [ReaderNew EXCEPT !.fp = "open", !.version = MZGF_VERSION,
                                !.fpos = b[1].zoffset,
                                !.zoffset = b[1].zoffset,
                                !.bindex = b] : b \in Indexes }
   /\ g = GlobalsInit
   /\ phase = "open"
   /\ hist = [HistInit EXCEPT !.seq = TRUE]

NextSearch == \E u \in 0..(MaxUoffset + 1) : USeek(u)

SpecSearch == InitSearch /\ [][NextSearch]_vars


\* ---- properties ---------------------------------------------------------
\* the bytes of src that block i (1-based) of the input holds
Chunk(i) ==
   Bytes(src, (i - 1) * MZGF_BLOCK_SIZE,
         Min(MZGF_BLOCK_SIZE, Len(src) - (i - 1) * MZGF_BLOCK_SIZE))

\* the extra field of the EOF member as it stands in dst
DstExtraEof ==
   Bytes(dst, Len(dst) - EofMemberSize + Len(gzheader), Len(extra_eof_init))

\* the trailer of the data member: the 8 bytes before the first index member
DstDataTrailer == Bytes(dst, unpackInt64(Bytes(DstExtraEof, 12, 8)) - 8, 8)

\* C1: after deflate and a successful open, the bytes delivered by reads of
\* any positive sizes, up to the first read that returns 0 or leaves eof()
\* true, are exactly the bytes of the input.
C1_RoundTrip ==
   (phase = "open" /\ hist.seq /\ hist.stop >= 0)
      => SubSeq(hist.got, 1, hist.stop) = src

\* C2: a successful useek(u), u < ufilesize, followed by read(k) with
\* u + k <= ufilesize returns exactly the k bytes src[u .. u+k).
C2_SeekThenRead ==
   [][ ( /\ hist.op = "useek" /\ hist.ret = 0
         /\ hist'.op = "read"
         /\ hist.arg < r.ufilesize
         /\ hist.arg + hist'.arg <= r.ufilesize )
       => ( /\ hist'.ret = hist'.arg
            /\ hist'.data = Bytes(src, hist.arg, hist'.arg) ) ]_vars

\* C3: at a position reached by sequential reads, vseek(vtell()) leaves the
\* reader where every read(k) returns what it would have returned without
\* the seek.
C3_VirtualOffsetStable ==
   [][ ( /\ Running /\ hist.seq
         /\ hist'.op = "vseek" /\ hist'.arg = vtell(ReaderCtx) )
       => \A k \in 1..MaxReq :
             LET before == read(ReaderCtx, k)
                 after  == read([ r |-> r', g |-> g', file |-> dst' ], k)
             IN /\ after.r.ret = before.r.ret
                /\ after.r.data = before.r.data ]_vars

\* C4: vtell() is the offset of the current block in the compressed stream
\* shifted left 16, plus boffset: after open it designates the first data
\* block, after useek(u) for an index entry (z, u) it is z << 16.
C4_VTell ==
   /\ (phase = "open" /\ hist.op = "open")
         => vtell(ReaderCtx) = Shl(r.bindex[1].zoffset, VOFF_BITS)
   /\ (phase = "open" /\ hist.op = "useek" /\ hist.ret = 0)
         => \A i \in DOMAIN r.bindex :
               r.bindex[i].uoffset = hist.arg
                  => vtell(ReaderCtx) = Shl(r.bindex[i].zoffset, VOFF_BITS)


\* C5 as stated: once a read has returned 0 with every byte of the stream
\* delivered, eof() is true and the next read, no seek in between, returns 0
\* and leaves the position as it was.
C5_ZeroAtEndLatches ==
   [][ ( /\ Running /\ hist.seq
         /\ hist.op = "read" /\ hist.ret = 0
         /\ Len(hist.got) = r.ufilesize
         /\ hist'.op = "read" )
       => ( /\ eof(ReaderCtx)
            /\ hist'.ret = 0
            /\ r'.uoffset = r.uoffset /\ r'.zoffset = r.zoffset ) ]_vars

\* C5 amended: once eof() is true, a read (until a seek clears the latch)
\* returns -1 with no bytes, "read past end of file", and changes neither
\* the latch nor the position of the reader.
C5_EofLatch ==
   [][ ( Running /\ eof(ReaderCtx) /\ hist'.op = "read" )
       => ( /\ hist'.ret = -1 /\ hist'.data = << >>
            /\ r'.error = "read past end of file"
            /\ r'.isEOF
            /\ r'.zoffset = r.zoffset /\ r'.uoffset = r.uoffset
            /\ r'.fpos = r.fpos /\ r'.zs = r.zs
            /\ r'.blen = r.blen /\ r'.boffset = r.boffset ) ]_vars

\* a read was refused at the latch, after sequential reads to the end
C5_Witness ==
   /\ phase = "open" /\ hist.seq /\ hist.op = "read" /\ hist.ret = -1
   /\ eof(ReaderCtx) /\ hist.got = src /\ Len(src) > 0

\* C6: after every successful vseek or useek, whatever the state before it,
\* eof() is false.
C6_SeekClearsEof ==
   (phase = "open" /\ hist.op \in {"vseek", "useek"} /\ hist.ret = 0)
      => ~eof(ReaderCtx)

\* C7: read(n), n > 0, returns 0 only at the end of the uncompressed
\* stream: with fewer than ufilesize bytes before the position it returns
\* at least one byte or -1.
C7_ZeroOnlyAtEnd ==
   (phase = "open" /\ hist.seq /\ hist.op = "read" /\ hist.ret = 0)
      => Len(hist.got) >= r.ufilesize

\* C8: the index deflate writes has one entry for the empty input and
\* ceil(n / MZGF_BLOCK_SIZE) entries for an input of n > 0 bytes.
C8_IndexCount ==
   phase # "new"
      => Len(w.bindex) = IF Len(src) = 0 THEN 1
                        ELSE (Len(src) + MZGF_BLOCK_SIZE - 1) \div MZGF_BLOCK_SIZE

\* C9: entry i (from 0) of the index has uoffset i * MZGF_BLOCK_SIZE;
\* uoffset and zoffset strictly increase; the zoffset of an entry is the
\* number of bytes written to dst before the compressed bytes of its block.
C9_MonotonicIndex ==
   phase # "new"
      => \A i \in DOMAIN w.bindex :
            LET out == DeflateOut(Chunk(i), i = Len(w.bindex))
            IN /\ w.bindex[i].uoffset = (i - 1) * MZGF_BLOCK_SIZE
               /\ i = 1 => w.bindex[i].zoffset
                              = Len(gzheader) + Len(extra_mzgf_init)
               /\ i > 1 => /\ w.bindex[i].uoffset > w.bindex[i - 1].uoffset
                           /\ w.bindex[i].zoffset > w.bindex[i - 1].zoffset
               /\ Bytes(dst, w.bindex[i].zoffset, Len(out)) = out
               /\ i < Len(w.bindex)
                     => w.bindex[i + 1].zoffset
                           = w.bindex[i].zoffset + Len(out)

\* an input of several blocks has been written
C9_Witness == phase = "written" /\ Len(w.bindex) >= 3 /\ Len(dst) > 0

\* C10: the trailer of the data member holds the CRC-32 of the whole input
\* and its length, the length being the low four bytes of ufilesize in the
\* EOF member.
C10_DataTrailer ==
   phase # "new"
      => /\ Bytes(DstDataTrailer, 0, 4) = packInt32(crc32(0, src))
         /\ Bytes(DstDataTrailer, 4, 4) = packInt32(Len(src))
         /\ Bytes(DstDataTrailer, 4, 4) = Bytes(DstExtraEof, 4, 4)

\* an input of more than one full block, with a checksum that is not the
\* initial one, has been written
C10_Witness ==
   /\ phase = "written" /\ Len(src) > MZGF_BLOCK_SIZE
   /\ Bytes(DstDataTrailer, 0, 4) # Zeros(4)

\* ---- the layout of a written file ---------------------------------------
\* the position after the final block of the DEFLATE stream that starts at
\* offset p of f (-1: the bytes are no such stream)
RECURSIVE StreamEnd(_, _)
StreamEnd(f, p) ==
   IF p >= Len(f) \/ HdrType(f[p + 1]) # 0 THEN -1
   ELSE IF HdrLast(f[p + 1]) THEN p + 1 + HdrLen(f[p + 1])
   ELSE StreamEnd(f, p + 1 + HdrLen(f[p + 1]))

\* XLEN of the member header at offset p of f
MemberXlen(f, p) == unpackInt16(Bytes(f, p + 10, 2))

\* the member header at offset p of f is the one _write_header writes
IsHeader(f, p) ==
   /\ p >= 0 /\ p + Len(gzheader) <= Len(f)
   /\ Bytes(f, p, 4) = Bytes(gzheader, 0, 4)
   /\ Bytes(f, p + 4, 4) = packInt32(MTime)
   /\ Bytes(f, p + 8, 2) = Bytes(gzheader, 8, 2)

\* offset after the member without data that starts at offset p of f
MemberEnd(f, p) == p + Len(gzheader) + MemberXlen(f, p) + 2 + 8

\* at offset p of f stands a member with the subfield id, the payload
\* 0x03 0x00 and a trailer of CRC32 = 0 and ISIZE = 0
IsEmptyMember(f, p, id) ==
   /\ IsHeader(f, p)
   /\ MemberEnd(f, p) <= Len(f)
   /\ Bytes(f, p + Len(gzheader), 2) = id
   /\ Bytes(f, p + Len(gzheader) + MemberXlen(f, p), 2) = EmptyPayload
   /\ Bytes(f, p + Len(gzheader) + MemberXlen(f, p) + 2, 8) = Zeros(8)

\* the number of index members that stand one after the other from offset
\* p of f up to offset stop exactly (-1: they do not)
RECURSIVE IndexRun(_, _, _)
IndexRun(f, p, stop) ==
   IF p = stop THEN 0
   ELSE IF p > stop \/ ~IsEmptyMember(f, p, << 66, 73 >>) THEN -1
   ELSE IF IndexRun(f, MemberEnd(f, p), stop) < 0 THEN -1
   ELSE 1 + IndexRun(f, MemberEnd(f, p), stop)

\* C11: a successful deflate writes the opening member (header with the MZ
\* extra, DEFLATE payload, trailer), then one or more index members, then
\* one EOF member that is the last 42 bytes of the file, nothing in between;
\* index and EOF members have the payload 0x03 0x00 and a zero trailer.
C11_Layout ==
   (phase # "new" /\ w.ret = 0)
      => /\ IsHeader(dst, 0)
         /\ MemberXlen(dst, 0) = Len(extra_mzgf_init)
         /\ Bytes(dst, Len(gzheader), Len(extra_mzgf_init)) = extra_mzgf_init
         /\ StreamEnd(dst, Len(gzheader) + Len(extra_mzgf_init)) > 0
         /\ IndexRun(dst,
                     StreamEnd(dst, Len(gzheader) + Len(extra_mzgf_init)) + 8,
                     Len(dst) - 42) >= 1
         /\ IsEmptyMember(dst, Len(dst) - 42, << 66, 79 >>)
         /\ MemberXlen(dst, Len(dst) - 42) = 20
         /\ MemberEnd(dst, Len(dst) - 42) = Len(dst)

\* a file with a chain of index members has been written
C11_Witness ==
   /\ phase = "written" /\ w.ret = 0
   /\ IndexRun(dst, w.bindex_offset, Len(dst) - 42) >= 2

\* the first 12 bytes of dst are a member header _read_header accepts for an
\* extra field of at most extralen bytes, and the extra field is all there
HeaderParses(extralen) ==
   /\ Len(dst) >= Len(gzheader)
   /\ dst[1] = GZIP_MAGIC_ID1 /\ dst[2] = GZIP_MAGIC_ID2
   /\ dst[3] = GZIP_CM_DEFLATED
   /\ (dst[4] \div GZIP_FEXTRA_FLG) % 2 = 1
   /\ MemberXlen(dst, 0) <= extralen
   /\ Len(dst) >= Len(gzheader) + MemberXlen(dst, 0)

\* C12: open returns NOT_MZGZIP for every file whose opening member parses
\* but does not carry the MZ subfield: the first two extra bytes are not
\* 'M','Z', or the extra field is empty or shorter than the 5 bytes of the
\* subfield.
C12_RejectsNonMZ ==
   ( /\ hist.op = "open"
     /\ HeaderParses(Len(extra_mzgf_init))
     /\ \/ MemberXlen(dst, 0) < Len(extra_mzgf_init)
        \/ Bytes(dst, Len(gzheader), 2) # << 77, 90 >> )
      => hist.ret = MZGF_NOT_MZGZIP

\* offset of the EOF member in dst
DstEofAt == Len(dst) - EofMemberSize

\* offset of the first index member, as the EOF member of dst gives it
DstBindexAt == unpackInt64(Bytes(DstExtraEof, 12, 8))

\* C13: open returns BAD_FORMAT whenever the subfield identifier of the EOF
\* member differs from "BO" in either byte, and whenever that of an index
\* member differs from "BI" in either byte (the member headers and the
\* opening member being as deflate wrote them).
C13_StrictIds ==
   ( /\ hist.op = "open"
     /\ Len(dst) >= EofMemberSize + Len(gzheader) + Len(extra_mzgf_init)
     /\ IsHeader(dst, 0) /\ MemberXlen(dst, 0) = Len(extra_mzgf_init)
     /\ Bytes(dst, Len(gzheader), Len(extra_mzgf_init)) = extra_mzgf_init
     /\ IsHeader(dst, DstEofAt)
     /\ MemberXlen(dst, DstEofAt) = Len(extra_eof_init)
     /\ \/ Bytes(dst, DstEofAt + Len(gzheader), 2) # << 66, 79 >>
        \/ /\ IsHeader(dst, DstBindexAt)
           /\ Bytes(dst, DstBindexAt + Len(gzheader), 2) # << 66, 73 >> )
      => hist.ret = MZGF_BAD_FORMAT

\* C14: parsing the header of the opening member fails with ERR_HEADER when
\* fewer than 12 bytes can be read, with NOT_GZIP when ID1, ID2 or CM
\* mismatch, with BAD_FORMAT when the FEXTRA bit of FLG is not set, whatever
\* XLEN is, with BAD_FORMAT when XLEN exceeds the buffer, and with
\* ERR_HEADER when fewer than XLEN extra bytes can be read.
C14_HeaderParse ==
   hist.op = "open"
      => IF Len(dst) < Len(gzheader) THEN hist.ret = MZGF_ERR_HEADER
         ELSE IF dst[1] # GZIP_MAGIC_ID1 \/ dst[2] # GZIP_MAGIC_ID2
                 \/ dst[3] # GZIP_CM_DEFLATED
         THEN hist.ret = MZGF_NOT_GZIP
         ELSE IF (dst[4] \div GZIP_FEXTRA_FLG) % 2 = 0
         THEN hist.ret = MZGF_BAD_FORMAT
         ELSE IF MemberXlen(dst, 0) > Len(extra_mzgf_init)
         THEN hist.ret = MZGF_BAD_FORMAT
         ELSE IF Len(dst) < Len(gzheader) + MemberXlen(dst, 0)
         THEN hist.ret = MZGF_ERR_HEADER
         ELSE TRUE

\* C15: if a write to dst fails or is short at any point of deflate (header
\* or extra field of any member, compressed chunk, empty payload, trailer),
\* deflate returns a non-zero status with the error message set and begins
\* no member after the one the failed write belongs to.
C15_WriteFailureAborts ==
   (hist.op = "deflate" /\ w.ferr)
      => /\ hist.ret # 0
         /\ w.error # ""
         /\ w.hdrs = w.failHdrs
         /\ phase = "failed"

\* only the write of the 12 header bytes of the opening member failed: the
\* extra field and compressed bytes were written after it, and deflate
\* returned an error
C15_Witness ==
   /\ hist.op = "deflate" /\ w.ferr /\ w.failAt = 1 /\ ~w.persist
   /\ hist.ret # 0 /\ Len(dst) > Len(extra_mzgf_init)

\* C16: when the INFLATE engine reports a hard error during read, read
\* returns -1 to its caller with the error message set, the process goes on
\* and the reader's file handle stays open until close().
C16_InflateErrorReturns ==
   (phase = "open" /\ hist.op = "read" /\ r.zs.mode = "BAD")
      => /\ hist.ret = -1
         /\ r.error # ""
         /\ r.fp = "open"
         /\ r.exit = 0

\* C17: what a new MZGFileWriter writes for src does not depend on what a
\* MZGFileReader did before it in the process, on another file handle: it is
\* what a writer writes in a process that did nothing else.
C17_InstanceIsolation ==
   [][ ( /\ hist.op = "open"
         /\ hist'.op = "redeflate" /\ hist'.arg = 1 )
       => hist'.data
             = deflate([ w |-> WriterNew, g |-> GlobalsInit ], src).w.fp ]_vars

\* C18: a second deflate of the same input with the same mtime writes the
\* bytes the first one wrote, whether the writer is new or the one that
\* made the first call.
C18_Deterministic ==
   [][ ( hist.op = "deflate" /\ hist'.op = "redeflate" )
       => ( hist'.ret = hist.ret /\ hist'.data = dst ) ]_vars

\* next_bindex_offset of the index member at offset p of f
MemberNext(f, p) == unpackInt64(Bytes(f, p + Len(gzheader) + 4, 8))

\* from the index member at offset p of f on, every member before the one
\* that ends at stop stores the offset at which the next header starts, and
\* that one stores 0
RECURSIVE ChainLinked(_, _, _)
ChainLinked(f, p, stop) ==
   IF MemberEnd(f, p) >= stop THEN MemberNext(f, p) = 0
   ELSE /\ MemberNext(f, p) = MemberEnd(f, p)
        /\ IsHeader(f, MemberEnd(f, p))
        /\ ChainLinked(f, MemberEnd(f, p), stop)

\* C20: first_bindex_offset of the EOF member is the offset of the first
\* index member, every index member but the last stores the offset of the
\* header of the next one, the last stores 0, and the index open builds is
\* the sequence of entries the writer recorded.
C20_IndexRoundTrip ==
   phase = "open"
      => /\ DstBindexAt = w.bindex_offset
         /\ r.bindex_offset = w.bindex_offset
         /\ IsEmptyMember(dst, w.bindex_offset, << 66, 73 >>)
         /\ IndexRun(dst, w.bindex_offset, DstEofAt) >= 1
         /\ ChainLinked(dst, w.bindex_offset, DstEofAt)
         /\ r.bindex = w.bindex

\* a file whose index is spread over two index members has been opened
C20_Witness ==
   /\ phase = "open" /\ hist.op = "open"
   /\ IndexRun(dst, w.bindex_offset, DstEofAt) = 2
   /\ Len(r.bindex) = 3
   /\ MemberNext(dst, w.bindex_offset) > w.bindex_offset

\* the bytes mzgzip -d is asked for: size bytes of src from from on
Requested(from, size) == Bytes(src, from, Min(size, Len(src) - from))

\* C19: mzgzip exits with status 0 when the operation asked for completes
\* (compress; list; decompress with or without -u and -s writing the bytes
\* asked for) and with a non-zero status when it fails; when the seek asked
\* for fails no decompressed data is written.
C19_ExitStatus ==
   /\ (hist.op \in { "deflate", "list" }) => hist.ret = 0
   /\ ( /\ hist.op = "decompress" /\ hist.arg.v = -1 /\ r.exit = 0
        /\ hist.data = Requested(IF hist.arg.u = -1 THEN 0 ELSE hist.arg.u,
                                 hist.arg.s) )
         => hist.ret = 0
   /\ ( /\ hist.op = "decompress" /\ hist.arg.v # -1
        /\ Shr(hist.arg.v, VOFF_BITS) < 0 )
         => (hist.ret # 0 /\ hist.data = << >>)

\* the entry of bindex with the greatest uoffset <= uoffset (1-based)
Floor(bindex, uoffset) ==
   CHOOSE i \in DOMAIN bindex :
      /\ bindex[i].uoffset <= uoffset
      /\ \A j \in DOMAIN bindex : bindex[j].uoffset <= uoffset => j <= i

\* C21: over every index whose uoffsets strictly increase from 0 and every
\* target uoffset >= 0, useek returns 0 having selected the entry with the
\* greatest uoffset <= target: boffset is target - entry.uoffset and the
\* reader is at that entry's block.  (The search indexing outside bindex or
\* not terminating would stop the evaluation.)
C21_BinarySearch ==
   hist.op = "useek" =>
      /\ hist.ret = 0
      /\ r.boffset = hist.arg - r.bindex[Floor(r.bindex, hist.arg)].uoffset
      /\ r.zoffset = r.bindex[Floor(r.bindex, hist.arg)].zoffset

\* a seek past the uoffset of a later entry of a full index
C21_Witness ==
   /\ hist.op = "useek"
   /\ Len(r.bindex) = MaxEntries
   /\ Floor(r.bindex, hist.arg) \in 2..MaxEntries
   /\ r.boffset > 0

\* the offsets of the members without data that stand one after the other
\* from offset p of f, before offset stop (whatever their subfield id: see
\* C17 for the id a writer stores after a reader was used)
RECURSIVE IndexMembers(_, _, _)
IndexMembers(f, p, stop) ==
   IF p >= stop \/ ~IsEmptyMember(f, p, Bytes(f, p + Len(gzheader), 2))
   THEN << >>
   ELSE << p >> \o IndexMembers(f, MemberEnd(f, p), stop)

\* the index members of the file the writer wrote last
WrittenIndexMembers ==
   IndexMembers(w.fp, w.bindex_offset, Len(w.fp) - EofMemberSize)

\* the number of whole entries in the extra field of the index member at
\* offset p of f: what follows the subfield id, LEN and next offset
MemberEntries(f, p) == (MemberXlen(f, p) - 12) \div 16

\* the entries carried by the index members at the offsets ps of f
RECURSIVE EntriesCarried(_, _)
EntriesCarried(f, ps) ==
   IF ps = << >> THEN 0
   ELSE MemberEntries(f, Head(ps)) + EntriesCarried(f, Tail(ps))

\* C22: in every file deflate wrote, the index members stand one after the
\* other up to the EOF member and carry all entries of the index between
\* them; each has XLEN at most 65535 and smaller than the staging buffer
\* extra_bindex and carries at least one whole entry; packing never wrote
\* past the end of extra_bindex (the buffer keeps its size).
C22_ExtraCap ==
   /\ Len(g.extra_bindex) = GZIP_FEXTRA_MAX
   /\ (phase # "new" /\ w.ret = 0)
         => /\ WrittenIndexMembers # << >>
            /\ MemberEnd(w.fp, WrittenIndexMembers[Len(WrittenIndexMembers)])
                  = Len(w.fp) - EofMemberSize
            /\ EntriesCarried(w.fp, WrittenIndexMembers) = Len(w.bindex)
            /\ \A i \in DOMAIN WrittenIndexMembers :
                  /\ MemberXlen(w.fp, WrittenIndexMembers[i]) <= 65535
                  /\ MemberXlen(w.fp, WrittenIndexMembers[i]) < GZIP_FEXTRA_MAX
                  /\ MemberXlen(w.fp, WrittenIndexMembers[i])
                        = 12 + 16 * MemberEntries(w.fp, WrittenIndexMembers[i])
                  /\ MemberEntries(w.fp, WrittenIndexMembers[i]) >= 1

\* an index of three members has been written, the first ones filled up to
\* the split
C22_Witness ==
   /\ phase # "new" /\ w.ret = 0
   /\ Len(WrittenIndexMembers) >= 3
   /\ MemberXlen(w.fp, WrittenIndexMembers[1]) + 16 >= GZIP_FEXTRA_MAX

\* the LEN field of the "BI" subfield of the index member at offset p of f
MemberLen(f, p) == unpackInt16(Bytes(f, p + Len(gzheader) + 2, 2))

\* C23 as stated: LEN of every index member is 4 + 8 + 16*k, k the number of
\* entries the member carries.
C23_LenCountsHeader ==
   (phase # "new" /\ w.ret = 0)
      => \A i \in DOMAIN WrittenIndexMembers :
            MemberLen(w.fp, WrittenIndexMembers[i])
               = 4 + 8 + 16 * MemberEntries(w.fp, WrittenIndexMembers[i])

\* C23: LEN of every index member is 8 + 16*k, the size of the subfield's
\* data (next offset and k entries), which is XLEN - 4; the members carry
\* all entries of the index between them.
C23_LenField ==
   (phase # "new" /\ w.ret = 0)
      => /\ EntriesCarried(w.fp, WrittenIndexMembers) = Len(w.bindex)
         /\ \A i \in DOMAIN WrittenIndexMembers :
               /\ MemberLen(w.fp, WrittenIndexMembers[i])
                     = 8 + 16 * MemberEntries(w.fp, WrittenIndexMembers[i])
               /\ MemberLen(w.fp, WrittenIndexMembers[i])
                     = MemberXlen(w.fp, WrittenIndexMembers[i]) - 4

\* a file whose index members carry two entries and one entry
C23_Witness ==
   /\ phase # "new" /\ w.ret = 0
   /\ \E i, j \in DOMAIN WrittenIndexMembers :
         /\ MemberEntries(w.fp, WrittenIndexMembers[i]) = 2
         /\ MemberEntries(w.fp, WrittenIndexMembers[j]) = 1

\* the bytes inflated into the block buffer and not yet copied to a caller
Buffered == Bytes(r.ublock, r.boffset, r.blen - r.boffset)

\* C24: while bytes of the block buffer are still to be returned, eof() is
\* false, and a read is not refused with "read past end of file" (it does
\* not return -1): it returns at least the buffered bytes it was asked for,
\* those first.  This holds
\* for the final block too, the end of the stream being reported by an
\* inflate call of its own after it.
C24_BufferedBytesDelivered ==
   /\ []( (Running /\ r.blen - r.boffset > 0) => ~eof(ReaderCtx) )
   /\ [][ ( Running /\ r.blen - r.boffset > 0 /\ hist'.op = "read" )
          => ( /\ hist'.ret >= Min(hist'.arg, Len(Buffered))
               /\ SubSeq(hist'.data, 1, Min(hist'.arg, Len(Buffered)))
                     = SubSeq(Buffered, 1, Min(hist'.arg, Len(Buffered))) ) ]_vars

\* a read copied a part of the final block of an input of several blocks,
\* the rest of it is in the block buffer
C24_Witness ==
   /\ phase = "open" /\ hist.seq /\ hist.op = "read" /\ hist.ret > 0
   /\ r.exit = 0
   /\ r.blen - r.boffset > 0
   /\ r.zs.last /\ r.zs.mode = "TYPE"
   /\ Len(src) > MZGF_BLOCK_SIZE
   /\ hist.got \o Buffered = src

\* C25: open of any file returns, with success or an error, and the index it
\* builds holds no more entries than the file stores; this includes a file
\* whose index member names itself or an earlier index member as the next.
C25_OpenTerminates ==
   hist.op = "open"
      => /\ ~r.hang
         /\ r.exit = 0
         /\ Len(r.bindex) <= Len(w.bindex)

\* C26: after close() and a successful open() on the same reader, bindex()
\* holds exactly the entries of the file opened, the block buffer is empty
\* (blen = 0, boffset = 0), and the bytes sequential reads return are the
\* bytes of the input from offset 0 on.
C26_ReuseAsFresh ==
   /\ (hist.op = "open" /\ hist.nopen > 0 /\ hist.ret = 0)
         => /\ r.bindex = w.bindex
            /\ r.blen = 0 /\ r.boffset = 0
   /\ (phase = "open" /\ hist.nopen > 0 /\ hist.seq /\ r.exit = 0)
         => /\ Len(hist.got) <= Len(src)
            /\ hist.got = SubSeq(src, 1, Len(hist.got))

=============================================================================
